---------------------------- MODULE Spec2Model ----------------------------
(***************************************************************************)
(* The location-state abstraction of ari_sxn_common: DeviceWithLocations   *)
(* and its LocationSignal, in the two revisions the repository holds:      *)
(*   common_ophyd.py   LocationSignal.get / .set / .available              *)
(*                     (set returns a combined status, it never waits)     *)
(*   ophyd_devices.py  LocationSignal.get, DeviceWithLocations             *)
(*                     .set_location (issues the moves, then waits)        *)
(*                                                                         *)
(* Python values are tagged records [t, n, s, e]: t is the Python type,    *)
(* n the number (fixed point, in ticks), s the string, e the elements of   *)
(* a tuple or list.  Floats are fixed-point integers: rounding of IEEE     *)
(* arithmetic is outside the model.                                        *)
(*                                                                         *)
(* Status objects are ophyd's: s1 & s2 is an AndStatus that finishes with  *)
(* success once both operands have, and finishes with failure as soon as   *)
(* one operand has failed; callbacks run after the operand finished, in    *)
(* a thread of their own.  ophyd.status.wait(s) blocks until s is done     *)
(* and raises when s failed.                                               *)
(***************************************************************************)
EXTENDS Integers, Sequences, FiniteSets, TLC

VARIABLES
    revision,   \* "common_ophyd" or "ophyd_devices": the module the devices are built from
    table,      \* [device -> _locations_data]: a sequence of locations (dict order)
    axisval,    \* [leaf axis -> value]: motor positions and signal readbacks
    value,      \* [device -> value]: the cached value of device.locations
    status,     \* the status objects created so far, by id
    calls,      \* the set()/set_location() calls made so far, by id
    busy,       \* [device -> status id]: Signal._status of device.locations (0: none)
    lastget,    \* the latest locations.get() of a caller: [dev, err]
    constructed,    \* [device -> the exception __init__ raised, "" when it returned]
    lastavailable   \* the latest available() of a caller: [dev, names]

vars == <<revision, table, axisval, value, status, calls, busy, lastget,
          constructed, lastavailable>>

---------------------------------------------------------------------------
(* Bounds *)

MaxPos == 2        \* motor positions range over -MaxPos..MaxPos ticks
MaxCalls == 1      \* set()/set_location() calls by outside callers in one behaviour

---------------------------------------------------------------------------
(* Python values *)

PyFloat(n) == [t |-> "float", n |-> n, s |-> "", e |-> <<>>]
PyInt(n)   == [t |-> "int",   n |-> n, s |-> "", e |-> <<>>]
PyStr(s)   == [t |-> "str",   n |-> 0, s |-> s,  e |-> <<>>]
PyBool(b)  == [t |-> "bool",  n |-> IF b THEN 1 ELSE 0, s |-> "", e |-> <<>>]
PyNone     == [t |-> "NoneType", n |-> 0, s |-> "", e |-> <<>>]
\* a value of a type get() does not support (a Device.get() tuple, an array)
PyOther    == [t |-> "object", n |-> 0, s |-> "", e |-> <<>>]
\* self.parent._LocationsTuple(**locations): e is a sequence of [name, flag]
LocationsTuple(e) == [t |-> "Locations", n |-> 0, s |-> "", e |-> e]
\* the list of names ophyd_devices.py publishes: every element's flag is TRUE
PyList(e)  == [t |-> "list", n |-> 0, s |-> "", e |-> e]

IsNumber(v) == v.t \in {"float", "int", "bool"}

\* An == that holds of any two strings
PyEqAnyStr(a, b) ==
    IF IsNumber(a) /\ IsNumber(b) THEN a.n = b.n
    ELSE IF a.t = "str" /\ b.t = "str" THEN TRUE
    ELSE IF a.t = "NoneType" /\ b.t = "NoneType" THEN TRUE
    ELSE FALSE

\* Python's ==: numbers compare by value across bool/int/float, strings
\* with strings, anything else is unequal.
PyEq(a, b) ==
    IF IsNumber(a) /\ IsNumber(b) THEN a.n = b.n
    ELSE IF a.t = "str" /\ b.t = "str" THEN a.s = b.s
    ELSE IF a.t = "NoneType" /\ b.t = "NoneType" THEN TRUE
    ELSE FALSE

\* The elements Python iterates over: a namedtuple's elements are its field
\* VALUES (here the booleans), a list's elements are the names it holds.
Elements(v) ==
    IF v.t = "Locations" THEN [i \in 1..Len(v.e) |-> PyBool(v.e[i].flag)]
    ELSE IF v.t = "list" THEN [i \in 1..Len(v.e) |-> PyStr(v.e[i].name)]
    ELSE <<>>

\* Python's `x in v` for a tuple or list v.
PyIn(x, v) == \E i \in 1..Len(Elements(v)) : PyEq(x, Elements(v)[i])

\* all() taken for a test of the first element only
AllFirstOnly(value_check) == value_check # << >> /\ Head(value_check)

\* Python's all(list)
RECURSIVE All(_)
All(value_check) ==
    IF value_check = <<>> THEN TRUE
    ELSE Head(value_check) /\ All(Tail(value_check))

---------------------------------------------------------------------------
(* The device tree *)

Devices == {"m1", "diag"}
LeafAxes == {"x", "ccg", "blade", "filter"}

\* getattr(device, name): the component the name resolves to.
\*   positioner: has .position (EpicsMotor)      signal: has .get() only
\*   locations: the LocationSignal of a nested DeviceWithLocations
\*   plain: an attribute that is no ophyd object (the device's name, a str):
\*          it has neither .position nor .get() nor .set()
\*   missing: getattr raises AttributeError
Component(dev, name) ==
    CASE dev = "m1" /\ name = "x"   -> [kind |-> "positioner", of |-> "x"]
      [] dev = "m1" /\ name = "ccg" -> [kind |-> "signal", of |-> "ccg"]
      [] dev = "m1" /\ name = "name" -> [kind |-> "plain", of |-> ""]
      [] dev = "m1" /\ name = "diag.locations" /\ revision = "common_ophyd"
                                    -> [kind |-> "locations", of |-> "diag"]
      [] dev = "diag" /\ name = "blade"  -> [kind |-> "positioner", of |-> "blade"]
      [] dev = "diag" /\ name = "filter" -> [kind |-> "positioner", of |-> "filter"]
      [] OTHER -> [kind |-> "missing", of |-> ""]

\* One (axis, data) item of a location: data = (target, tol)
Item(axis, target, tol) == [axis |-> axis, target |-> target, tol |-> tol]
\* An item whose data is a str, given by its characters: data[0] and data[1]
\* are its first two characters.
StrItem(axis, chars) == Item(axis, PyStr(chars[1]), PyStr(chars[2]))
Location(name, items) == [name |-> name, items |-> items]

\* list(self._locations_data.keys())
Keys(locations_data) == [i \in 1..Len(locations_data) |-> locations_data[i].name]
KeySet(locations_data) == {locations_data[i].name : i \in 1..Len(locations_data)}

\* self._locations_data[name] (the caller has checked name is a key)
Lookup(locations_data, name) ==
    LET i == CHOOSE i \in 1..Len(locations_data) : locations_data[i].name = name
    IN  locations_data[i].items

---------------------------------------------------------------------------
(* common_ophyd.py: LocationSignal.get *)

RECURSIVE get(_, _)
RECURSIVE CheckItems(_, _, _, _)
RECURSIVE CheckItemsLazy(_, _, _, _)
RECURSIVE CheckLocations(_, _, _, _)

\* A read that calls .get() whenever there is one: a motor's get() returns
\* a tuple of the values of its components, not its position.
ReadGetFirst(dev, signal_name, vals) ==
    LET signal == Component(dev, signal_name) IN
    CASE signal.kind = "missing" ->
            [err |-> "AttributeError", value |-> PyNone, vals |-> vals]
      [] signal.kind = "positioner" ->
            [err |-> "", value |-> PyOther, vals |-> vals]
      [] signal.kind = "signal" ->
            [err |-> "", value |-> axisval[signal.of], vals |-> vals]
      [] signal.kind = "plain" ->
            [err |-> "AttributeError", value |-> PyNone, vals |-> vals]
      [] signal.kind = "locations" ->
            LET r == get(signal.of, vals)
            IN  [err |-> r.err, value |-> r.vals[signal.of], vals |-> r.vals]

\* Lines 485-503: resolve the signal and read it, .position before .get().
\* vals is the cached value of every locations signal: reading a nested
\* locations signal runs its get(), which publishes the nested value.
ReadSignal(dev, signal_name, vals) ==
    LET signal == Component(dev, signal_name) IN
    CASE signal.kind = "missing" ->
            [err |-> "AttributeError", value |-> PyNone, vals |-> vals]
      [] signal.kind = "positioner" ->
            [err |-> "", value |-> axisval[signal.of], vals |-> vals]
      [] signal.kind = "signal" ->
            [err |-> "", value |-> axisval[signal.of], vals |-> vals]
      [] signal.kind = "plain" ->
            [err |-> "AttributeError", value |-> PyNone, vals |-> vals]
      [] signal.kind = "locations" ->
            LET r == get(signal.of, vals)
            IN  [err |-> r.err, value |-> r.vals[signal.of], vals |-> r.vals]

\* The interval taken as closed
InIntervalClosed(data, v) ==
    /\ data.target.n - data.tol.n <= v.n
    /\ v.n <= data.target.n + data.tol.n

\* data[0] - data[1] < value < data[0] + data[1]
InInterval(data, v) ==
    /\ data.target.n - data.tol.n < v.n
    /\ v.n < data.target.n + data.tol.n

\* The test chosen by the type of the target, whatever the value read
ValueCheckByTarget(dev, data, v) ==
    IF Component(dev, data.axis).kind = "locations" THEN
        [err |-> "", ok |-> PyIn(data.target, v)]
    ELSE IF data.target.t = "float" THEN
        IF IsNumber(v) /\ IsNumber(data.tol)
        THEN [err |-> "", ok |-> InInterval(data, v)]
        ELSE [err |-> "TypeError", ok |-> FALSE]
    ELSE IF data.target.t \in {"int", "bool", "str"} THEN
        [err |-> "", ok |-> PyEq(data.target, v)]
    ELSE [err |-> "ValueError", ok |-> FALSE]

\* Lines 505-525: the test is chosen by the type of the value read.
ValueCheck(dev, data, v) ==
    IF v.t = "float" THEN
        IF IsNumber(data.target) /\ IsNumber(data.tol)
        THEN [err |-> "", ok |-> InInterval(data, v)]
        ELSE [err |-> "TypeError", ok |-> FALSE]
    ELSE IF Component(dev, data.axis).kind = "locations" THEN
        [err |-> "", ok |-> PyIn(data.target, v)]
    ELSE IF v.t \in {"int", "bool", "str"} THEN
        [err |-> "", ok |-> PyEq(data.target, v)]
    ELSE [err |-> "ValueError", ok |-> FALSE]

\* An inner loop that stops at the first test that fails, as all() over a
\* generator would
CheckItemsLazy(dev, items, vals, value_check) ==
    IF items = <<>> THEN [err |-> "", vals |-> vals, value_check |-> value_check]
    ELSE
        LET r == ReadSignal(dev, Head(items).axis, vals) IN
        IF r.err # "" THEN [err |-> r.err, vals |-> r.vals, value_check |-> value_check]
        ELSE
            LET c == ValueCheck(dev, Head(items), r.value) IN
            IF c.err # "" THEN [err |-> c.err, vals |-> r.vals, value_check |-> value_check]
            ELSE IF ~c.ok THEN [err |-> "", vals |-> r.vals,
                                value_check |-> Append(value_check, FALSE)]
            ELSE CheckItemsLazy(dev, Tail(items), r.vals, Append(value_check, c.ok))

\* Lines 481-525: the inner loop, appending to value_check.
CheckItems(dev, items, vals, value_check) ==
    IF items = <<>> THEN [err |-> "", vals |-> vals, value_check |-> value_check]
    ELSE
        LET r == ReadSignal(dev, Head(items).axis, vals) IN
        IF r.err # "" THEN [err |-> r.err, vals |-> r.vals, value_check |-> value_check]
        ELSE
            LET c == ValueCheck(dev, Head(items), r.value) IN
            IF c.err # "" THEN [err |-> c.err, vals |-> r.vals, value_check |-> value_check]
            ELSE CheckItems(dev, Tail(items), r.vals, Append(value_check, c.ok))

\* Lines 480-529: the outer loop, filling the locations dict.
CheckLocations(dev, locs, vals, locations) ==
    IF locs = <<>> THEN [err |-> "", vals |-> vals, locations |-> locations]
    ELSE
        LET r == CheckItems(dev, Head(locs).items, vals, <<>>) IN
        IF r.err # "" THEN [err |-> r.err, vals |-> r.vals, locations |-> locations]
        ELSE CheckLocations(dev, Tail(locs), r.vals,
                Append(locations, [name |-> Head(locs).name,
                                   flag |-> All(r.value_check)]))

\* A get() that puts what it has computed when an axis makes it raise
get_putting_early(dev, vals) ==
    LET r == CheckLocations(dev, table[dev], vals, <<>>) IN
    [err |-> r.err, vals |-> [r.vals EXCEPT ![dev] = LocationsTuple(r.locations)]]

\* Lines 476-533: the result is put, then read back by super().get().
get(dev, vals) ==
    LET r == CheckLocations(dev, table[dev], vals, <<>>) IN
    IF r.err # "" THEN [err |-> r.err, vals |-> r.vals]
    ELSE [err |-> "", vals |-> [r.vals EXCEPT ![dev] = LocationsTuple(r.locations)]]

---------------------------------------------------------------------------
(* ophyd_devices.py: LocationSignal.get *)

\* The test of ophyd_devices.py with the interval taken as closed
MotorCheckClosed(dev, data) ==
    LET motor == Component(dev, data.axis) IN
    IF motor.kind # "positioner" THEN [err |-> "AttributeError", ok |-> FALSE]
    ELSE IF ~(IsNumber(data.target) /\ IsNumber(data.tol))
         THEN [err |-> "TypeError", ok |-> FALSE]
    ELSE [err |-> "", ok |-> InIntervalClosed(data, axisval[motor.of])]

\* Lines 125-127: one element of the list comprehension.
MotorCheck(dev, data) ==
    LET motor == Component(dev, data.axis) IN
    IF motor.kind # "positioner" THEN [err |-> "AttributeError", ok |-> FALSE]
    ELSE IF ~(IsNumber(data.target) /\ IsNumber(data.tol))
         THEN [err |-> "TypeError", ok |-> FALSE]
    ELSE [err |-> "", ok |-> InInterval(data, axisval[motor.of])]

RECURSIVE MotorChecks(_, _, _)
MotorChecks(dev, items, value_check) ==
    IF items = <<>> THEN [err |-> "", value_check |-> value_check]
    ELSE
        LET c == MotorCheck(dev, Head(items)) IN
        IF c.err # "" THEN [err |-> c.err, value_check |-> value_check]
        ELSE MotorChecks(dev, Tail(items), Append(value_check, c.ok))

RECURSIVE MotorLocations(_, _, _)
MotorLocations(dev, locs, locations) ==
    IF locs = <<>> THEN [err |-> "", locations |-> locations]
    ELSE
        LET r == MotorChecks(dev, Head(locs).items, <<>>) IN
        IF r.err # "" THEN [err |-> r.err, locations |-> locations]
        ELSE MotorLocations(dev, Tail(locs),
                IF All(r.value_check)
                THEN Append(locations, [name |-> Head(locs).name, flag |-> TRUE])
                ELSE locations)

\* A get() that appends to the list published before
get_appending(dev, vals) ==
    LET r == MotorLocations(dev, table[dev], <<>>) IN
    IF r.err # "" THEN [err |-> r.err, vals |-> vals]
    ELSE [err |-> "", vals |-> [vals EXCEPT ![dev] =
            PyList((IF vals[dev].t = "list" THEN vals[dev].e ELSE << >>) \o r.locations)]]

\* Lines 119-131
get_ophyd_devices(dev, vals) ==
    LET r == MotorLocations(dev, table[dev], <<>>) IN
    IF r.err # "" THEN [err |-> r.err, vals |-> vals]
    ELSE [err |-> "", vals |-> [vals EXCEPT ![dev] = PyList(r.locations)]]

---------------------------------------------------------------------------
(* Actions: reading *)

\* A get() that lets every move in flight finish before it reads the axes
GetSettling(dev) ==
    LET moving == {s \in 1..Len(status) : status[s].kind = "move" /\ ~status[s].done}
        settled == [a \in DOMAIN axisval |->
                        IF \E s \in moving : status[s].axis = a
                        THEN PyFloat(status[CHOOSE s \in moving : status[s].axis = a].target.n)
                        ELSE axisval[a]]
    IN  /\ constructed[dev] = ""
        /\ status' = [s \in 1..Len(status) |->
                        IF s \in moving
                        THEN [status[s] EXCEPT !.done = TRUE, !.success = TRUE]
                        ELSE status[s]]
        /\ axisval' = settled
        /\ value' = value
        /\ lastget' = [dev |-> dev, err |-> ""]
        /\ UNCHANGED <<revision, constructed, lastavailable, table, calls, busy>>

\* A get() that answers from the value it published before, when there
\* is one, and reads the axes only the first time
GetCached(dev) ==
    LET r == IF revision = "common_ophyd" THEN get(dev, value)
             ELSE get_ophyd_devices(dev, value)
        cached == value[dev].t \in {"Locations", "list"}
    IN  /\ constructed[dev] = ""
        /\ value' = IF cached THEN value ELSE r.vals
        /\ lastget' = [dev |-> dev, err |-> IF cached THEN "" ELSE r.err]
        /\ UNCHANGED <<revision, constructed, lastavailable, table, axisval, status, calls, busy>>

\* device.locations.get(), from any caller
Get(dev) ==
    LET r == IF revision = "common_ophyd" THEN get(dev, value)
             ELSE get_ophyd_devices(dev, value)
    IN  /\ constructed[dev] = ""
        /\ value' = r.vals
        /\ lastget' = [dev |-> dev, err |-> r.err]
        /\ UNCHANGED <<revision, constructed, lastavailable, table, axisval, status, calls, busy>>

Positions == (0 - MaxPos)..MaxPos

---------------------------------------------------------------------------
(* Construction *)

MaxLocs == 2       \* locations in a table drawn for the evaluation runs

\* DeviceWithLocations.__init__ stores locations_data as given; the
\* locations signal starts at Signal's default value (0.0), in
\* ophyd_devices.py at the value=[] of its Component.
InitialValue(rev) == IF rev = "common_ophyd" THEN PyFloat(0) ELSE PyList(<<>>)

\* The locations of pool whose index is in S, in pool order.
RECURSIVE Pick(_, _, _)
Pick(pool, S, i) ==
    IF i > Len(pool) THEN << >>
    ELSE (IF i \in S THEN << pool[i] >> ELSE << >>) \o Pick(pool, S, i + 1)

\* Every table of at most MaxLocs locations of pool.
Tables(pool) ==
    { Pick(pool, S, 1) : S \in { T \in SUBSET (1..Len(pool)) : Cardinality(T) <= MaxLocs } }

\* Tables of the shape of M1.diag's locations_data (ari_ophyd.py)
DiagPool ==
    << Location("Out", << Item("blade", PyInt(0), PyInt(2)) >>),
       Location("YaG", << Item("blade", PyFloat(-1), PyInt(2)),
                          Item("filter", PyInt(0), PyInt(1)) >>),
       Location("Any", << >>) >>

\* Tables of the shape of m1_locations_data (bluesky_test_setup.py), with
\* a motor, discrete signals and an axis name that does not resolve.
M1Pool ==
    << Location("measure", << Item("diag.locations", PyStr("Out"), PyNone),
                              Item("x", PyInt(0), PyInt(1)) >>),
       Location("Yag", << Item("diag.locations", PyStr("YaG"), PyNone) >>),
       Location("open", << Item("ccg", PyStr("Open"), PyNone) >>),
       Location("one", << Item("ccg", PyInt(1), PyNone) >>),
       Location("broken", << Item("x", PyInt(MaxPos), PyInt(1)),
                             Item("nosuch", PyInt(0), PyInt(1)) >>),
       Location("named", << Item("name", PyStr("m1"), PyNone) >>),
       Location("bare", << StrItem("ccg", << "O", "p", "e", "n" >>) >>) >>

\* ophyd_devices.py knows motors only.
M1PoolMotors ==
    << Location("in", << Item("x", PyInt(0), PyInt(1)) >>),
       Location("out", << Item("x", PyInt(MaxPos), PyFloat(1)) >>),
       Location("broken", << Item("x", PyInt(MaxPos), PyInt(1)),
                             Item("nosuch", PyInt(0), PyInt(1)) >>) >>

Readbacks == {PyStr("Open"), PyStr("Closed"), PyStr("O"), PyInt(1), PyFloat(1), PyOther}

\* The names namedtuple() refuses as field names, among the names in use:
\* Python's keywords.
Keywords == {"in"}

\* Lines 589-602 (ophyd_devices.py 133-143): __init__ stores the table;
\* common_ophyd.py then builds namedtuple('Locations', keys), which raises
\* ValueError when a key is a keyword.
DeviceInit(rev, locations_data) ==
    IF rev = "common_ophyd" /\ KeySet(locations_data) \cap Keywords # {}
    THEN "ValueError" ELSE ""

\* A device whose component failed to construct is not constructed either.
Constructed(rev, tables, d) ==
    IF DeviceInit(rev, tables[d]) # "" THEN DeviceInit(rev, tables[d])
    ELSE IF d = "m1" /\ rev = "common_ophyd" THEN DeviceInit(rev, tables["diag"])
    ELSE ""

InitRest ==
    /\ constructed = [d \in Devices |-> Constructed(revision, table, d)]
    /\ lastavailable = [dev |-> "", names |-> << >>]
    /\ value = [d \in Devices |-> InitialValue(revision)]
    /\ status = << >>
    /\ calls = << >>
    /\ busy = [d \in Devices |-> 0]
    /\ lastget = [dev |-> "", err |-> ""]

\* Evaluation runs: any table of the pools, any reading of the axes.
InitEval ==
    /\ revision \in {"common_ophyd", "ophyd_devices"}
    /\ \E td \in Tables(DiagPool) :
        \E tm \in Tables(IF revision = "common_ophyd" THEN M1Pool ELSE M1PoolMotors) :
            table = [d \in Devices |-> IF d = "diag" THEN td ELSE tm]
    /\ \E b \in Positions, f \in {0, MaxPos}, x \in {0, MaxPos}, c \in Readbacks :
            axisval = [a \in LeafAxes |->
                        CASE a = "blade" -> PyFloat(b)
                          [] a = "filter" -> PyFloat(f)
                          [] a = "x" -> PyFloat(x)
                          [] a = "ccg" -> c]
    /\ InitRest

NextEval == \E dev \in Devices : Get(dev)

SpecEval == InitEval /\ [][NextEval]_vars

---------------------------------------------------------------------------
(* Status objects *)

NoStatus == [kind |-> "none", call |-> 0, done |-> FALSE, success |-> FALSE,
             left |-> 0, right |-> 0, axis |-> "", target |-> PyNone]

\* super().set(value): the Status of Signal.set, not finished
BaseStatus(c) == [NoStatus EXCEPT !.kind = "base", !.call = c]

\* The status of a move that set() waited for before going on
MoveStatusWaited(c, axis, target) ==
    [NoStatus EXCEPT !.kind = "move", !.call = c, !.axis = axis, !.target = target,
                     !.done = TRUE, !.success = TRUE]

\* positioner.set(data[0]): the status of a move that has just been requested
MoveStatus(c, axis, target) ==
    [NoStatus EXCEPT !.kind = "move", !.call = c, !.axis = axis, !.target = target]

\* left & right
AndStatus(c, left, right) ==
    [NoStatus EXCEPT !.kind = "and", !.call = c, !.left = left, !.right = right]

\* An AndStatus that finishes with success once one operand has
AndOutcomeEither(l, r) ==
    IF (l.done /\ l.success) \/ (r.done /\ r.success) THEN "finished"
    ELSE IF l.done /\ r.done THEN "failed"
    ELSE "wait"

\* An AndStatus that looks at the success of its left operand only
AndOutcomeLeftOnly(l, r) ==
    IF l.done /\ ~l.success THEN "failed"
    ELSE IF l.done /\ r.done THEN "finished"
    ELSE "wait"

\* What an AndStatus does when a callback of an operand runs, given the two
\* operands: "failed" as soon as one operand is done without success,
\* "finished" when both are done with success, "wait" otherwise.
AndOutcome(l, r) ==
    IF l.done /\ ~l.success THEN "failed"
    ELSE IF r.done /\ ~r.success THEN "failed"
    ELSE IF l.done /\ l.success /\ r.done /\ r.success THEN "finished"
    ELSE "wait"

---------------------------------------------------------------------------
(* common_ophyd.py: LocationSignal.set *)

NoCall == [dev |-> "", location |-> "", parent |-> 0, pc |-> "raised",
           err |-> "", msg |-> << >>, base |-> 0, ret |-> 0, cmds |-> << >>,
           waited |-> 0, laststatus |-> 0, npending |-> 0, retdone |-> FALSE]

\* One set command of a call: the axis name, the value set, the status
\* returned and the number of waits the call had finished when it issued it.
Command(axis, target, st, waits) ==
    [axis |-> axis, target |-> target, st |-> st, waits |-> waits]

\* A KeyError that names no location
KeyErrorMessageBare(dev) == << >>

\* The names the KeyError's message lists: list(_locations_data.keys())
KeyErrorMessage(dev) == Keys(table[dev])

\* Every item of the table, whatever the location
RECURSIVE AllItems(_)
AllItems(locations_data) ==
    IF locations_data = << >> THEN << >>
    ELSE Head(locations_data).items \o AllItems(Tail(locations_data))
LocationDataWholeTable(dev, name) == AllItems(table[dev])

\* A lookup that inserts an empty location for a missing key, as the
\* lookup in a defaultdict does
AfterLookupInserting(locations_data_, name) ==
    IF name \in KeySet(locations_data_) THEN locations_data_
    ELSE Append(locations_data_, Location(name, << >>))

\* The table after the lookup self.parent._locations_data[value] of line
\* 559 (ophyd_devices.py 155): the lookup in a dict changes nothing,
\* whether the key is there or not.
AfterLookup(locations_data_, name) == locations_data_

\* The items a move to `name` commands: self.parent._locations_data[value]
LocationData(dev, name) == Lookup(table[dev], name)

\* The location name a target value is, as a dict key
NameOf(target) == IF target.t = "str" THEN target.s ELSE ""

RECURSIVE set(_, _, _, _, _)
RECURSIVE SetItems(_, _, _, _, _, _)

\* A loop that calls the set() of a nested locations signal and leaves
\* the status it returns out of the chain
SetItemsDetached(dev, c, items, S, last, reject) ==
    IF items = << >> THEN [S |-> S, err |-> "", last |-> last]
    ELSE
        LET it == Head(items)
            signal == Component(dev, it.axis)
        IN
        CASE signal.kind = "missing" -> [S |-> S, err |-> "AttributeError", last |-> last]
          [] signal.kind = "plain" -> [S |-> S, err |-> "AttributeError", last |-> last]
          [] signal.kind = "signal" -> [S |-> S, err |-> "ReadOnlyError", last |-> last]
          [] signal.kind = "positioner" ->
                IF signal.of \in reject
                THEN [S |-> S, err |-> "LimitError", last |-> last]
                ELSE
                    LET m == Len(S.status) + 1
                        S1 == [S EXCEPT
                                !.status = @ \o << MoveStatus(c, signal.of, it.target),
                                                  AndStatus(c, last, m) >>,
                                !.calls[c].cmds = Append(@, Command(it.axis, it.target, m, 0))]
                    IN  SetItems(dev, c, Tail(items), S1, m + 1, reject)
          [] signal.kind = "locations" ->
                LET r == set(signal.of, NameOf(it.target), c, S, reject) IN
                IF r.err # "" THEN [S |-> r.S, err |-> r.err, last |-> last]
                ELSE
                    LET S1 == [r.S EXCEPT
                                !.calls[c].cmds = Append(@, Command(it.axis, it.target, r.ret, 0))]
                    IN  SetItems(dev, c, Tail(items), S1, last, reject)

\* Lines 568-570: the loop over location_data.items().  S holds the status
\* objects, the calls, Signal._status and the cached values; last is
\* status_list[-1]; reject
\* holds the motors whose set() raises (a target outside the limits).
SetItems(dev, c, items, S, last, reject) ==
    IF items = << >> THEN [S |-> S, err |-> "", last |-> last]
    ELSE
        LET it == Head(items)
            signal == Component(dev, it.axis)
        IN
        CASE signal.kind = "missing" -> [S |-> S, err |-> "AttributeError", last |-> last]
          [] signal.kind = "plain" -> [S |-> S, err |-> "AttributeError", last |-> last]
          [] signal.kind = "signal" -> [S |-> S, err |-> "ReadOnlyError", last |-> last]
          [] signal.kind = "positioner" ->
                IF signal.of \in reject
                THEN [S |-> S, err |-> "LimitError", last |-> last]
                ELSE
                    LET m == Len(S.status) + 1
                        S1 == [S EXCEPT
                                !.status = @ \o << MoveStatus(c, signal.of, it.target),
                                                  AndStatus(c, last, m) >>,
                                !.calls[c].cmds = Append(@, Command(it.axis, it.target, m, 0))]
                    IN  SetItems(dev, c, Tail(items), S1, m + 1, reject)
          [] signal.kind = "locations" ->
                LET r == set(signal.of, NameOf(it.target), c, S, reject) IN
                IF r.err # "" THEN [S |-> r.S, err |-> r.err, last |-> last]
                ELSE
                    LET S1 == [r.S EXCEPT
                                !.status = Append(@, AndStatus(c, last, r.ret)),
                                !.calls[c].cmds = Append(@, Command(it.axis, it.target, r.ret, 0))]
                    IN  SetItems(dev, c, Tail(items), S1, Len(S1.status), reject)

\* The moves requested since status b was created that are not done
Pending(S, b) == {s \in b..Len(S.status) : S.status[s].kind = "move" /\ ~S.status[s].done}

\* Lines 558-575.  Signal.set (super().set) refuses while the status of
\* the signal's previous set is not done; else it starts a thread that
\* puts the value it was given (here at once) and then polls get() for
\* it, as one more caller of Get: no Locations tuple equals the name, so
\* the thread never finishes the status with success.  When get() raises
\* in the thread, the thread finishes the status without success: it
\* races with line 572, and the set_finished() of line 572 raises
\* InvalidState when the thread was first.  reject names, besides the
\* motors whose set() raises, the devices whose thread has raised in get()
\* and is first.
set(dev, name, parent, S, reject) ==
    LET c == Len(S.calls) + 1
        call == [NoCall EXCEPT !.dev = dev, !.location = name, !.parent = parent]
        raced == dev \in reject
    IN
    IF name \notin KeySet(table[dev]) THEN
        [S |-> [S EXCEPT !.calls = Append(@, [call EXCEPT !.err = "KeyError",
                                                          !.msg = KeyErrorMessage(dev)])],
         err |-> "KeyError", ret |-> 0]
    ELSE IF S.busy[dev] # 0 /\ ~S.status[S.busy[dev]].done THEN
        [S |-> [S EXCEPT !.calls = Append(@, [call EXCEPT !.err = "RuntimeError"])],
         err |-> "RuntimeError", ret |-> 0]
    ELSE
        LET b == Len(S.status) + 1
            S1 == [status |-> Append(S.status, BaseStatus(c)),
                   calls |-> Append(S.calls, [call EXCEPT !.base = b]),
                   busy |-> [S.busy EXCEPT ![dev] = b],
                   value |-> [S.value EXCEPT ![dev] = PyStr(name)]]
            r == SetItems(dev, c, LocationData(dev, name), S1, b, reject)
        IN
        IF r.err # "" THEN
            [S |-> [r.S EXCEPT !.calls[c].err = r.err, !.status[b].done = raced],
             err |-> r.err, ret |-> 0]
        ELSE IF raced THEN
            [S |-> [r.S EXCEPT !.calls[c].err = "InvalidState", !.status[b].done = TRUE],
             err |-> "InvalidState", ret |-> 0]
        ELSE
            \* status_list[0].set_finished(); return status_list[-1]
            LET S2 == [r.S EXCEPT !.status[b].done = TRUE, !.status[b].success = TRUE] IN
            [S |-> [S2 EXCEPT !.calls[c].pc = "returned",
                              !.calls[c].ret = r.last,
                              !.calls[c].laststatus = Len(S2.status),
                              !.calls[c].npending = Cardinality(Pending(S2, b)),
                              !.calls[c].retdone = S2.status[r.last].done],
             err |-> "", ret |-> r.last]

TopCalls == {c \in 1..Len(calls) : calls[c].parent = 0}
Motors == {"x", "blade", "filter"}
Rejects == {{}} \cup {{m} : m \in Motors}
CallNames(dev) == KeySet(table[dev]) \cup {"nonexistent"}

\* device.locations.set(name), from any caller
Set(dev, name, reject) ==
    /\ revision = "common_ophyd"
    /\ constructed[dev] = ""
    /\ Cardinality(TopCalls) < MaxCalls
    /\ LET r == set(dev, name, 0, [status |-> status, calls |-> calls,
                                    busy |-> busy, value |-> value], reject)
       IN  /\ status' = r.S.status
           /\ calls' = r.S.calls
           /\ busy' = r.S.busy
           /\ value' = r.S.value
    /\ table' = [table EXCEPT ![dev] = AfterLookup(table[dev], name)]
    /\ UNCHANGED <<revision, constructed, lastavailable, axisval, lastget>>

---------------------------------------------------------------------------
(* Status objects finishing *)

\* A move ends: the motor reached its target, or it failed on the way.
AxisFinish(s, ok) ==
    /\ status[s].kind = "move" /\ ~status[s].done
    /\ status' = [status EXCEPT ![s].done = TRUE, ![s].success = ok]
    /\ axisval' = IF ok THEN [axisval EXCEPT ![status[s].axis] = PyFloat(status[s].target.n)]
                  ELSE axisval
    /\ UNCHANGED <<revision, constructed, lastavailable, table, value, calls, busy, lastget>>

\* A callback of an operand of an AndStatus runs.
AndResolve(s) ==
    /\ status[s].kind = "and" /\ ~status[s].done
    /\ LET o == AndOutcome(status[status[s].left], status[status[s].right]) IN
        /\ o # "wait"
        /\ status' = [status EXCEPT ![s].done = TRUE, ![s].success = (o = "finished")]
    /\ UNCHANGED <<revision, constructed, lastavailable, table, axisval, value, calls, busy, lastget>>

---------------------------------------------------------------------------
(* ophyd_devices.py: DeviceWithLocations.set_location *)

\* Each move waited for before the next is issued
AfterIssueSequential(nitems, ncmds) == "wait"

\* A method that returns after its first wait
AfterWaitFirst(nitems, ncmds, nwaited) == "returned"

\* Where set_location goes after line 165 has issued a command: the loop
\* of lines 164-165 runs to its end before the loop of lines 166-167.
AfterIssue(nitems, ncmds) == IF ncmds = nitems THEN "wait" ELSE "issue"

\* Where set_location goes after a wait(status) has returned.
AfterWait(nitems, ncmds, nwaited) ==
    IF nwaited < ncmds THEN "wait"
    ELSE IF ncmds < nitems THEN "issue"
    ELSE "returned"

\* Lines 154-163: the lookup, and the empty status_list.  With no item
\* both loops are empty and the method returns (None).
SetLocationCall(dev, name) ==
    /\ revision = "ophyd_devices"
    /\ constructed[dev] = ""
    /\ Cardinality(TopCalls) < MaxCalls
    /\ LET call == [NoCall EXCEPT !.dev = dev, !.location = name] IN
       calls' = Append(calls,
            IF name \notin KeySet(table[dev])
            THEN [call EXCEPT !.err = "KeyError", !.msg = KeyErrorMessage(dev)]
            ELSE [call EXCEPT !.pc = IF LocationData(dev, name) = << >>
                                     THEN "returned" ELSE "issue"])
    /\ table' = [table EXCEPT ![dev] = AfterLookup(table[dev], name)]
    /\ UNCHANGED <<revision, constructed, lastavailable, axisval, value, status, busy, lastget>>

\* Line 165, once: getattr(self, motor).set(data[0]); rejected says that
\* the motor's set() raises.
SetLocationIssue(c, rejected) ==
    /\ calls[c].pc = "issue"
    /\ LET items == LocationData(calls[c].dev, calls[c].location)
           it == items[Len(calls[c].cmds) + 1]
           motor == Component(calls[c].dev, it.axis)
           err == CASE motor.kind = "missing" -> "AttributeError"
                    [] motor.kind = "plain" -> "AttributeError"
                    [] motor.kind = "signal" -> "ReadOnlyError"
                    [] rejected -> "LimitError"
                    [] OTHER -> ""
       IN  IF err # "" THEN
                /\ calls' = [calls EXCEPT ![c].pc = "raised", ![c].err = err]
                /\ status' = status
           ELSE
                /\ status' = Append(status, MoveStatus(c, motor.of, it.target))
                /\ calls' = [calls EXCEPT
                        ![c].cmds = Append(@, Command(it.axis, it.target,
                                                      Len(status) + 1, calls[c].waited)),
                        ![c].pc = AfterIssue(Len(items), Len(calls[c].cmds) + 1)]
    /\ UNCHANGED <<revision, constructed, lastavailable, table, axisval, value, busy, lastget>>

\* Line 167, once: wait(status) returns when the status is done with
\* success and raises when it is done without.
SetLocationWait(c) ==
    /\ calls[c].pc = "wait"
    /\ LET s == calls[c].cmds[calls[c].waited + 1].st IN
        /\ status[s].done
        /\ calls' = IF status[s].success
                    THEN [calls EXCEPT
                            ![c].waited = @ + 1,
                            ![c].pc = AfterWait(Len(LocationData(calls[c].dev, calls[c].location)),
                                                Len(calls[c].cmds), calls[c].waited + 1)]
                    ELSE [calls EXCEPT ![c].pc = "raised", ![c].err = "StatusFailure"]
    /\ UNCHANGED <<revision, constructed, lastavailable, table, axisval, value, status, busy, lastget>>

---------------------------------------------------------------------------
(* The devices in use *)

\* m1 and its diag as bluesky_test_setup.py and ari_ophyd.py build them
\* (common_ophyd.py), or two devices with motors (ophyd_devices.py).
locations_data(rev) ==
    [d \in Devices |->
        IF d = "diag" THEN DiagPool
        ELSE IF rev = "common_ophyd" THEN SubSeq(M1Pool, 1, 2)
        ELSE SubSeq(M1PoolMotors, 1, 2)]

\* Every motor at 0, the signal reading "Open"
AtRest == [a \in LeafAxes |-> IF a = "ccg" THEN PyStr("Open") ELSE PyFloat(0)]

Init ==
    /\ revision \in {"common_ophyd", "ophyd_devices"}
    /\ table = locations_data(revision)
    /\ axisval = AtRest
    /\ InitRest

Next ==
    \/ \E dev \in Devices : Get(dev)
    \/ \E dev \in Devices : \E name \in CallNames(dev) : \E reject \in Rejects :
            Set(dev, name, reject)
    \/ \E s \in 1..Len(status) : \E ok \in BOOLEAN : AxisFinish(s, ok)
    \/ \E s \in 1..Len(status) : AndResolve(s)
    \/ \E dev \in Devices : \E name \in CallNames(dev) : SetLocationCall(dev, name)
    \/ \E c \in 1..Len(calls) : \E rejected \in BOOLEAN : SetLocationIssue(c, rejected)
    \/ \E c \in 1..Len(calls) : SetLocationWait(c)

Spec == Init /\ [][Next]_vars

---------------------------------------------------------------------------
(* available() *)

\* Lines 577-587 (ophyd_devices.py 145-147): list(_locations_data.keys())
available(dev) == Keys(table[dev])

\* An available() that refreshes the signal's value on the way
AvailableRefreshing(dev) ==
    /\ constructed[dev] = ""
    /\ lastavailable' = [dev |-> dev, names |-> available(dev)]
    /\ value' = (IF revision = "common_ophyd" THEN get(dev, value)
                 ELSE get_ophyd_devices(dev, value)).vals
    /\ UNCHANGED <<revision, constructed, table, axisval, status, calls, busy, lastget>>

\* device.locations.available() / device.available_locations, from any caller
Available(dev) ==
    /\ constructed[dev] = ""
    /\ lastavailable' = [dev |-> dev, names |-> available(dev)]
    /\ UNCHANGED <<revision, constructed, table, axisval, value, status, calls, busy, lastget>>

\* Devices of any table of the pools, their axes at rest
InitAvail ==
    /\ revision \in {"common_ophyd", "ophyd_devices"}
    /\ \E td \in Tables(DiagPool) :
        \E tm \in Tables(IF revision = "common_ophyd" THEN M1Pool ELSE M1PoolMotors) :
            table = [d \in Devices |-> IF d = "diag" THEN td ELSE tm]
    /\ axisval = AtRest
    /\ InitRest

NextAvail ==
    \/ \E dev \in Devices : Get(dev)
    \/ \E dev \in Devices : Available(dev)

SpecAvail == InitAvail /\ [][NextAvail]_vars

---------------------------------------------------------------------------
(* A device with the locations `in` and `out` of a motor x *)

ScenarioSpan == 12     \* x ranges over target - ScenarioSpan .. target + ScenarioSpan

\* {"in": {"x": (-12.7, 0.1)}, "out": {"x": (28, 0.1)}}, a tick being 0.01
ScenarioTable ==
    << Location("in", << Item("x", PyFloat(-1270), PyFloat(10)) >>),
       Location("out", << Item("x", PyInt(2800), PyFloat(10)) >>) >>

\* Positions of x around the two targets, and 0
ScenarioPositions ==
    ((-1270 - ScenarioSpan)..(-1270 + ScenarioSpan))
        \cup {0} \cup ((2800 - ScenarioSpan)..(2800 + ScenarioSpan))

InitScenario ==
    /\ revision \in {"common_ophyd", "ophyd_devices"}
    /\ table = [d \in Devices |-> IF d = "m1" THEN ScenarioTable ELSE << >>]
    /\ \E p \in ScenarioPositions : axisval = [AtRest EXCEPT !["x"] = PyFloat(p)]
    /\ InitRest

SpecScenario == InitScenario /\ [][NextEval]_vars

---------------------------------------------------------------------------
(* Moves of a device whose get() may raise *)

\* m1 with a location on its discrete signal, a location without axes and
\* a location on the nested diag
ThreadTable ==
    << M1Pool[3], Location("Any", << >>), M1Pool[1] >>

\* The choices of the surroundings at a set(): a motor that refuses its
\* command, or the thread of the Signal.set of a device whose get() raises
\* running first
RejectsThread == Rejects \cup {{d} : d \in {e \in Devices : get(e, value).err # ""}}

\* The discrete signal reads "Open", or a float that get() cannot compare
\* with the spec ("Open", None)
InitThread ==
    /\ revision = "common_ophyd"
    /\ table = [d \in Devices |-> IF d = "diag" THEN DiagPool ELSE ThreadTable]
    /\ \E c \in {PyStr("Open"), PyFloat(1)} : axisval = [AtRest EXCEPT !["ccg"] = c]
    /\ InitRest

NextThread ==
    \/ \E dev \in Devices : Get(dev)
    \/ \E dev \in Devices : \E name \in CallNames(dev) : \E reject \in RejectsThread :
            Set(dev, name, reject)
    \/ \E s \in 1..Len(status) : \E ok \in BOOLEAN : AxisFinish(s, ok)
    \/ \E s \in 1..Len(status) : AndResolve(s)

SpecThread == InitThread /\ [][NextThread]_vars

---------------------------------------------------------------------------
(* A second move while a first is in flight *)

\* The calls on device dev some of whose moves are not done
Moving(dev) ==
    {c \in 1..Len(calls) :
        /\ calls[c].dev = dev
        /\ \E s \in 1..Len(status) :
                status[s].kind = "move" /\ status[s].call = c /\ ~status[s].done}

\* device.locations.set(name) by one more caller, while axes an earlier
\* set() of the same signal commanded are moving
SetAgain(dev, name, reject) ==
    /\ revision = "common_ophyd"
    /\ constructed[dev] = ""
    /\ Cardinality(TopCalls) <= MaxCalls
    /\ Moving(dev) # {}
    /\ LET r == set(dev, name, 0, [status |-> status, calls |-> calls,
                                    busy |-> busy, value |-> value], reject)
       IN  /\ status' = r.S.status
           /\ calls' = r.S.calls
           /\ busy' = r.S.busy
           /\ value' = r.S.value
    /\ table' = [table EXCEPT ![dev] = AfterLookup(table[dev], name)]
    /\ UNCHANGED <<revision, constructed, lastavailable, axisval, lastget>>

InitConcurrent ==
    /\ revision = "common_ophyd"
    /\ table = locations_data(revision)
    /\ axisval = AtRest
    /\ InitRest

NextConcurrent ==
    \/ \E dev \in Devices : \E name \in CallNames(dev) : \E reject \in Rejects :
            Set(dev, name, reject)
    \/ \E dev \in Devices : \E name \in CallNames(dev) : \E reject \in Rejects :
            SetAgain(dev, name, reject)
    \/ \E s \in 1..Len(status) : \E ok \in BOOLEAN : AxisFinish(s, ok)
    \/ \E s \in 1..Len(status) : AndResolve(s)

SpecConcurrent == InitConcurrent /\ [][NextConcurrent]_vars

---------------------------------------------------------------------------
(* trigger() of Diagnostic, BaffleSlit and M1 *)

TriggerDevices == {"diag", "slits", "m1"}

\* The status objects one trigger() of a device creates, the AndStatus
\* objects and those of the triggers it calls included
TriggerSize(dev) == CASE dev = "diag" -> 5 [] dev = "slits" -> 3 [] OTHER -> 11
MaxTriggerStatus == 11   \* status objects created by trigger() in one behaviour

\* The status a constituent's trigger() returns, not done
TriggerStatus(c, name) == [NoStatus EXCEPT !.kind = "trigger", !.call = c, !.axis = name]

\* The record of a trigger() call of a device, before it has returned
TriggerCall(dev, parent) == [NoCall EXCEPT !.dev = dev, !.parent = parent]

\* A trigger() of Diagnostic that leaves currents_status out of what it
\* returns
DiagnosticTriggerNoCurrents(parent, S) ==
    LET c == Len(S.calls) + 1
        n == Len(S.status)
    IN  [S |-> [status |-> S.status \o
                    << TriggerStatus(c, "camera"), TriggerStatus(c, "currents"),
                       TriggerStatus(c, "super"),
                       AndStatus(c, n + 1, n + 1), AndStatus(c, n + 4, n + 3) >>,
                calls |-> Append(S.calls,
                    [TriggerCall("diag", parent) EXCEPT
                        !.pc = "returned", !.ret = n + 5,
                        !.cmds = << Command("camera", PyNone, n + 1, 0),
                                    Command("currents", PyNone, n + 2, 0),
                                    Command("super", PyNone, n + 3, 0) >>])],
         ret |-> n + 5]

\* common_ophyd.py 687-702, Diagnostic.trigger:
\* camera_status & currents_status & super_status
DiagnosticTrigger(parent, S) ==
    LET c == Len(S.calls) + 1
        n == Len(S.status)
    IN  [S |-> [status |-> S.status \o
                    << TriggerStatus(c, "camera"), TriggerStatus(c, "currents"),
                       TriggerStatus(c, "super"),
                       AndStatus(c, n + 1, n + 2), AndStatus(c, n + 4, n + 3) >>,
                calls |-> Append(S.calls,
                    [TriggerCall("diag", parent) EXCEPT
                        !.pc = "returned", !.ret = n + 5,
                        !.cmds = << Command("camera", PyNone, n + 1, 0),
                                    Command("currents", PyNone, n + 2, 0),
                                    Command("super", PyNone, n + 3, 0) >>])],
         ret |-> n + 5]

\* common_ophyd.py 777-786, BaffleSlit.trigger: currents_status & super_status
BaffleSlitTrigger(parent, S) ==
    LET c == Len(S.calls) + 1
        n == Len(S.status)
    IN  [S |-> [status |-> S.status \o
                    << TriggerStatus(c, "currents"), TriggerStatus(c, "super"),
                       AndStatus(c, n + 1, n + 2) >>,
                calls |-> Append(S.calls,
                    [TriggerCall("slits", parent) EXCEPT
                        !.pc = "returned", !.ret = n + 3,
                        !.cmds = << Command("currents", PyNone, n + 1, 0),
                                    Command("super", PyNone, n + 2, 0) >>])],
         ret |-> n + 3]

\* ari_ophyd.py 123-136, M1.trigger: the parent's trigger first, then
\* slits.trigger() and diag.trigger(); baffle_status & super_status & diag_status
M1Trigger(parent, S) ==
    LET c == Len(S.calls) + 1
        n == Len(S.status)
        S1 == [status |-> Append(S.status, TriggerStatus(c, "super")),
               calls |-> Append(S.calls, TriggerCall("m1", parent))]
        baffle == BaffleSlitTrigger(c, S1)
        diag == DiagnosticTrigger(c, baffle.S)
        m == Len(diag.S.status)
    IN  [S |-> [status |-> diag.S.status \o
                    << AndStatus(c, baffle.ret, n + 1), AndStatus(c, m + 1, diag.ret) >>,
                calls |-> [diag.S.calls EXCEPT
                    ![c].pc = "returned", ![c].ret = m + 2,
                    ![c].cmds = << Command("super", PyNone, n + 1, 0),
                                   Command("slits", PyNone, baffle.ret, 0),
                                   Command("diag", PyNone, diag.ret, 0) >>]],
         ret |-> m + 2]

\* device.trigger(), from any caller
Trigger(dev) ==
    /\ revision = "common_ophyd"
    /\ Len(status) + TriggerSize(dev) <= MaxTriggerStatus
    /\ LET S == [status |-> status, calls |-> calls]
           r == CASE dev = "diag" -> DiagnosticTrigger(0, S)
                  [] dev = "slits" -> BaffleSlitTrigger(0, S)
                  [] OTHER -> M1Trigger(0, S)
       IN  /\ status' = r.S.status
           /\ calls' = r.S.calls
    /\ UNCHANGED <<revision, constructed, lastavailable, table, axisval, value, busy, lastget>>

\* The trigger of a constituent ends, with success or without.
TriggerFinish(s, ok) ==
    /\ status[s].kind = "trigger" /\ ~status[s].done
    /\ status' = [status EXCEPT ![s].done = TRUE, ![s].success = ok]
    /\ UNCHANGED <<revision, constructed, lastavailable, table, axisval, value, calls, busy, lastget>>

InitTrigger ==
    /\ revision = "common_ophyd"
    /\ table = locations_data(revision)
    /\ axisval = AtRest
    /\ InitRest

NextTrigger ==
    \/ \E dev \in TriggerDevices : Trigger(dev)
    \/ \E s \in 1..Len(status) : \E ok \in BOOLEAN : TriggerFinish(s, ok)
    \/ \E s \in 1..Len(status) : AndResolve(s)

SpecTrigger == InitTrigger /\ [][NextTrigger]_vars

---------------------------------------------------------------------------
(* Axes moved directly *)

\* An axis is a component of its own: a motor is moved, or a read-only
\* signal changes its reading, without a call to set() or set_location()
\* of the locations signal.
MoveAxis(axis, v) ==
    /\ axis \in LeafAxes
    /\ v # axisval[axis]
    /\ axisval' = [axisval EXCEPT ![axis] = v]
    /\ UNCHANGED <<revision, constructed, lastavailable, table, value, status, calls, busy, lastget>>

\* The devices in use, m1 with a location on its discrete signal too
InitMove ==
    /\ revision \in {"common_ophyd", "ophyd_devices"}
    /\ table = [d \in Devices |->
                    IF d = "diag" THEN DiagPool
                    ELSE IF revision = "common_ophyd" THEN SubSeq(M1Pool, 1, 3)
                    ELSE SubSeq(M1PoolMotors, 1, 2)]
    /\ axisval = AtRest
    /\ InitRest

NextMove ==
    \/ \E dev \in Devices : Get(dev)
    \/ \E axis \in Motors : \E p \in Positions : MoveAxis(axis, PyFloat(p))
    \/ \E c \in Readbacks : MoveAxis("ccg", c)

SpecMove == InitMove /\ [][NextMove]_vars

---------------------------------------------------------------------------
(* Properties of evaluation (SpecEval) *)

\* The names a published value reports as satisfied
SatisfiedNames(v) == {v.e[i].name : i \in {j \in 1..Len(v.e) : v.e[j].flag}}

\* A caller's get() of device d has returned, and nothing ran since
Evaluated(d) == lastget.dev = d /\ lastget.err = ""

\* What an axis of a device reports now; a nested locations signal reports
\* what its own get() publishes.
CurrentValue(dev, axis) ==
    LET signal == Component(dev, axis) IN
    IF signal.kind = "locations" THEN get(signal.of, value).vals[signal.of]
    ELSE axisval[signal.of]

\* The membership test of one (axis, spec) pair, on its own
Passes(dev, it) ==
    IF revision = "common_ophyd" THEN ValueCheck(dev, it, CurrentValue(dev, it.axis)).ok
    ELSE MotorCheck(dev, it).ok

Abs(n) == IF n < 0 THEN 0 - n ELSE n

\* C1: whatever the table and the axis values, a get() that returns
\* reports as satisfied exactly the locations all of whose (axis, spec)
\* pairs pass their membership test, each pair tested on its own; a
\* location without axes is always among them.
C1_SatisfiedIffEveryAxisPasses ==
    \A d \in Devices : Evaluated(d) =>
        /\ SatisfiedNames(value[d]) =
              { table[d][i].name : i \in { j \in 1..Len(table[d]) :
                    \A k \in 1..Len(table[d][j].items) : Passes(d, table[d][j].items[k]) } }
        /\ \A i \in 1..Len(table[d]) :
              table[d][i].items = << >> => table[d][i].name \in SatisfiedNames(value[d])

\* C1 witness: a get() of diag has reported two locations at once, the
\* two-axis YaG and the location without axes.
C1_Witness ==
    /\ Evaluated("diag")
    /\ {"YaG", "Any"} \subseteq SatisfiedNames(value["diag"])

\* The locations of a device whose axes are all motors
MotorLocationsOf(d) ==
    { i \in 1..Len(table[d]) :
        \A k \in 1..Len(table[d][i].items) :
            Component(d, table[d][i].items[k].axis).kind = "positioner" }

\* C2: a location whose specs are all numeric (target, tol) pairs on motors
\* is reported satisfied iff every motor is strictly nearer to its target
\* than tol: a position at target - tol or target + tol is outside, every
\* position strictly between them is inside.
C2_StrictOpenInterval ==
    \A d \in Devices : Evaluated(d) =>
        \A i \in MotorLocationsOf(d) :
            (table[d][i].name \in SatisfiedNames(value[d]))
            <=> \A k \in 1..Len(table[d][i].items) :
                    LET it == table[d][i].items[k] IN
                    Abs(axisval[Component(d, it.axis).of].n - it.target.n) < it.tol.n

\* C2 witness: the blade at 1 is inside Out's interval (0 +- 2) without
\* being at its target, and on the upper boundary of YaG's (-1 +- 2), so
\* that get() reports Out and does not report YaG.
C2_Witness ==
    /\ Evaluated("diag")
    /\ axisval["blade"] = PyFloat(1) /\ axisval["filter"] = PyFloat(0)
    /\ "Out" \in SatisfiedNames(value["diag"])
    /\ "YaG" \in KeySet(table["diag"])
    /\ "YaG" \notin SatisfiedNames(value["diag"])

\* The locations of a device whose only axis is a nested locations signal
NestedLocationsOf(d) ==
    { i \in 1..Len(table[d]) :
        /\ Len(table[d][i].items) = 1
        /\ Component(d, table[d][i].items[1].axis).kind = "locations" }

\* C10: a spec (target, ignored) on the locations signal of a nested
\* device is satisfied iff the nested device's own get() reports the
\* location `target` as satisfied.
C10_NestedTargetAmongNestedLocations ==
    \A d \in Devices : Evaluated(d) =>
        \A i \in NestedLocationsOf(d) :
            LET it == table[d][i].items[1] IN
            (table[d][i].name \in SatisfiedNames(value[d]))
            <=> (NameOf(it.target) \in SatisfiedNames(value[Component(d, it.axis).of]))

---------------------------------------------------------------------------
(* Properties of moves (Spec) *)

CallIds == 1..Len(calls)

\* The calls of LocationSignal.set that returned a status
Returned == {c \in CallIds : revision = "common_ophyd" /\ calls[c].pc = "returned"}

\* The calls of set_location
SyncCalls == {c \in CallIds : revision = "ophyd_devices"}

\* The per-axis handles of a call: the statuses its set commands returned
Handles(c) == {calls[c].cmds[i].st : i \in 1..Len(calls[c].cmds)}

Done(s) == status[s].done
Succeeded(s) == status[s].done /\ status[s].success
Failed(s) == status[s].done /\ ~status[s].success

\* C3, as claimed: the status set() returned is never done while a per-axis
\* handle of the same call is not done.
C3_NeverDoneWhileAnyHandlePending ==
    \A c \in Returned : Done(calls[c].ret) => \A h \in Handles(c) : Done(h)

\* C3, amended: the status set() returned is never done with success
\* while a per-axis handle of the same call is not done (or has failed),
\* and it is done without success only when a per-axis handle has failed.
C3_NeverSucceededWhileAnyHandlePending ==
    \A c \in Returned :
        /\ Succeeded(calls[c].ret) => \A h \in Handles(c) : Succeeded(h)
        /\ Failed(calls[c].ret) => \E h \in Handles(c) : Failed(h)

\* C3 witness: a move of two axes whose status is done with success
C3_Witness ==
    \E c \in Returned : Cardinality(Handles(c)) >= 2 /\ Succeeded(calls[c].ret)

\* No AndStatus has a callback left to run
Quiet ==
    \A s \in 1..Len(status) :
        (status[s].kind = "and" /\ ~status[s].done)
            => AndOutcome(status[status[s].left], status[status[s].right]) = "wait"

\* C4: when a per-axis command of a move has failed, the status set()
\* returned is not successful, whatever the other commands did and in
\* whatever order the handles finished; once the callbacks have run it is
\* done without success.  set_location never returns after a failure.
C4_OneFailureFailsTheMove ==
    /\ \A c \in Returned : (\E h \in Handles(c) : Failed(h)) =>
            /\ ~Succeeded(calls[c].ret)
            /\ Quiet => Failed(calls[c].ret)
    /\ \A c \in SyncCalls : (\E h \in Handles(c) : Failed(h)) => calls[c].pc # "returned"

\* C4 witness: of the two commands of a move one failed and the other
\* succeeded, and the move's status is done without success.
C4_Witness ==
    \E c \in Returned :
        /\ Cardinality(Handles(c)) = 2
        /\ \E h \in Handles(c) : Failed(h) /\ \A g \in Handles(c) \ {h} : Succeeded(g)
        /\ Failed(calls[c].ret)

\* A call with an unknown name has just been made by an outside caller
UnknownNameCall ==
    /\ Len(calls') = Len(calls) + 1
    /\ calls'[Len(calls')].err = "KeyError"
    /\ calls'[Len(calls')].parent = 0

\* C5: a move to a name that is no key of the table raises a KeyError whose
\* message lists every configured location; it has issued no command and
\* created no status, and the call leaves the statuses, the axes, the
\* signal's _status and the cached values as they were.
C5_UnknownLocationRaisesBeforeAnyCommand ==
    /\ [](\A c \in CallIds : calls[c].err = "KeyError" =>
            /\ KeySet(table[calls[c].dev]) \subseteq
                    {calls[c].msg[i] : i \in 1..Len(calls[c].msg)}
            /\ calls[c].cmds = << >>
            /\ calls[c].base = 0
            /\ \A s \in 1..Len(status) : status[s].call # c)
    /\ [][UnknownNameCall => UNCHANGED <<status, axisval, busy, value>>]_vars

\* C5 witness: a KeyError that lists the three locations of diag
C5_Witness ==
    \E c \in CallIds :
        /\ calls[c].err = "KeyError" /\ calls[c].dev = "diag"
        /\ Len(calls[c].msg) = 3

\* The calls that found their location in the table
Located == {c \in CallIds : calls[c].location \in KeySet(table[calls[c].dev])}

\* The moves a call requested of the motors
MovesOf(c) == {s \in 1..Len(status) : status[s].kind = "move" /\ status[s].call = c}

\* The set() calls a call made on nested locations signals
NestedOf(c) == {n \in CallIds : calls[n].parent = c}

\* C6: a move to location X sets each axis of X's spec once, to X's target,
\* in the order of the spec, and sets nothing else: its commands are a
\* prefix of X's items, all of X's items once it has stopped issuing, and
\* every move and every nested set() it requested is one of them (a nested
\* set() that raised is the item after them, and ends the move).  A failed
\* command is not issued again.
C6_OneCommandPerAxisOfTheLocation ==
    \A c \in Located :
        LET items == Lookup(table[calls[c].dev], calls[c].location)
            cmds == calls[c].cmds
        IN  /\ Len(cmds) <= Len(items)
            /\ \A i \in 1..Len(cmds) :
                    cmds[i].axis = items[i].axis /\ cmds[i].target = items[i].target
            /\ calls[c].pc \in {"returned", "wait"} => Len(cmds) = Len(items)
            /\ Cardinality(Handles(c)) = Len(cmds)
            /\ \A s \in MovesOf(c) : \E i \in 1..Len(cmds) :
                    /\ cmds[i].st = s
                    /\ Component(calls[c].dev, cmds[i].axis).of = status[s].axis
                    /\ status[s].target = cmds[i].target
            /\ \A n \in NestedOf(c) :
                    IF calls[n].pc = "returned"
                    THEN \E i \in 1..Len(cmds) :
                            /\ Component(calls[c].dev, cmds[i].axis) =
                                    [kind |-> "locations", of |-> calls[n].dev]
                            /\ NameOf(cmds[i].target) = calls[n].location
                            /\ calls[n].ret = cmds[i].st
                    ELSE /\ calls[c].pc = "raised" /\ Len(cmds) < Len(items)
                         /\ Component(calls[c].dev, items[Len(cmds) + 1].axis) =
                                    [kind |-> "locations", of |-> calls[n].dev]
                         /\ NameOf(items[Len(cmds) + 1].target) = calls[n].location
            /\ Cardinality(MovesOf(c)) + Cardinality(NestedOf(c)) <= Len(cmds) + 1
            /\ Cardinality(MovesOf(c))
                    + Cardinality({n \in NestedOf(c) : calls[n].pc = "returned"}) <= Len(cmds)

\* C6 witness: the move of m1 to measure has issued its two commands, and
\* the one to the motor x has failed.
C6_Witness ==
    \E c \in Returned :
        /\ calls[c].dev = "m1" /\ Len(calls[c].cmds) = 2
        /\ \E s \in MovesOf(c) : Failed(s)

\* C7: every set command of a move is issued before the move waits for
\* any status: no command is issued after a wait, and a move that waits
\* has issued all its commands.
C7_AllCommandsIssuedBeforeAnyWait ==
    \A c \in Located :
        /\ \A i \in 1..Len(calls[c].cmds) : calls[c].cmds[i].waits = 0
        /\ (calls[c].pc = "wait" \/ calls[c].waited > 0) =>
                Len(calls[c].cmds) = Len(Lookup(table[calls[c].dev], calls[c].location))

\* C7 witness: set_location is at its first wait with both commands issued
\* and neither move done.
C7_Witness ==
    \E c \in SyncCalls :
        /\ calls[c].pc = "wait" /\ calls[c].waited = 0
        /\ Len(calls[c].cmds) = 2
        /\ \A h \in Handles(c) : ~Done(h)

\* The moves requested while a call of set() ran, nested calls included
MovesDuring(c) ==
    {s \in calls[c].base..calls[c].laststatus : status[s].kind = "move"}

---------------------------------------------------------------------------
(* Properties of the cached value *)

\* A value that get() publishes: the Locations tuple, or the list of names
Published(v) == v.t \in {"Locations", "list"}

\* C11: the value get() published stays the signal's value until the next
\* get(): after the latest get() of a device returned, whatever set() or
\* set_location() calls followed, the cached value of that device is still
\* a result of get().
C11_CachedValueIsTheLastResult ==
    \A d \in Devices : Evaluated(d) => Published(value[d])

\* What a get() of device d, called now, returns and publishes
GetNow(d) ==
    IF revision = "common_ophyd" THEN get(d, value) ELSE get_ophyd_devices(d, value)

\* C12: with no axis changing, a second get() right after a get() returns
\* what the first returned (or raises what it raised) and leaves every
\* cached value as the first left it.
C12_GetIsIdempotent ==
    \A d \in Devices : lastget.dev = d =>
        GetNow(d) = [err |-> lastget.err, vals |-> value]

\* C12 witness: a get() of the synchronous revision has published a
\* non-empty list of names.
C12_Witness ==
    /\ revision = "ophyd_devices"
    /\ Evaluated("diag")
    /\ "Out" \in SatisfiedNames(value["diag"])

---------------------------------------------------------------------------
(* Properties of reading the axes *)

\* The (axis, spec) items of every location of a device's table
ItemsOf(d) ==
    UNION { {table[d][i].items[k] : k \in 1..Len(table[d][i].items)} :
                i \in 1..Len(table[d]) }

\* A value of a type the tests of get() support
Supported(v) == v.t \in {"float", "int", "bool", "str"}

\* The table of d names an axis that getattr does not find on d
Unresolvable(d) == \E it \in ItemsOf(d) : Component(d, it.axis).kind = "missing"

\* C13: when the table of a device names an axis that does not resolve on
\* the device, every get() of the device raises and publishes nothing: no
\* location is reported unsatisfied in place of the error, also when
\* another axis of the same location fails its test.  The error is the
\* AttributeError of the lookup, unless a location before it read a value
\* of an unsupported type, or a float where its spec is not numeric, and
\* raised for that first.
C13_UnresolvableAxisRaises ==
    \A d \in Devices : (lastget.dev = d /\ Unresolvable(d)) =>
        /\ lastget.err # ""
        /\ value[d] = InitialValue(revision)
        /\ \/ lastget.err = "AttributeError"
           \/ lastget.err = "ValueError" /\ ~Supported(axisval["ccg"])
           \/ lastget.err = "TypeError" /\ axisval["ccg"].t = "float"

\* C13 witness: get() raised AttributeError for the location `broken`,
\* whose first axis x, at 0, fails its test (MaxPos +- 1).
C13_Witness ==
    /\ lastget = [dev |-> "m1", err |-> "AttributeError"]
    /\ "broken" \in KeySet(table["m1"])
    /\ "named" \notin KeySet(table["m1"])
    /\ axisval["x"] = PyFloat(0)
    /\ revision = "common_ophyd"


\* The kinds of the components the table of d names
KindsOf(d) == {Component(d, it.axis).kind : it \in ItemsOf(d)}

\* C14: get() of common_ophyd.py reads an axis that has a position by its
\* position, a float, and not by its get(); it reads an axis without
\* position by its get(); and it raises AttributeError for an axis that
\* has neither.  A device whose axes are all motors is therefore always
\* evaluated, and a device with an axis that has neither never is.
C14_PositionBeforeGetValue ==
    \A d \in Devices : (revision = "common_ophyd" /\ lastget.dev = d) =>
        /\ \A it \in ItemsOf(d) :
            LET signal == Component(d, it.axis)
                r == ReadSignal(d, it.axis, value)
            IN  /\ signal.kind = "positioner" =>
                        r.err = "" /\ r.value = axisval[signal.of] /\ r.value.t = "float"
                /\ signal.kind = "signal" => r.err = "" /\ r.value = axisval[signal.of]
                /\ signal.kind = "plain" => r.err = "AttributeError"
        /\ KindsOf(d) \subseteq {"positioner"} => lastget.err = ""
        /\ "plain" \in KindsOf(d) => lastget.err # ""

\* C14 witness: get() read the signal ccg by its get() for the location
\* `one`, and then raised for the location on the device's name, which has
\* neither a position nor a get().
C14_Witness ==
    /\ revision = "common_ophyd"
    /\ lastget = [dev |-> "m1", err |-> "AttributeError"]
    /\ Keys(table["m1"]) = << "one", "named" >>
    /\ axisval["ccg"] = PyInt(1)

\* The items of d on a motor or a signal (not on a nested locations signal)
LeafItemsOf(d) ==
    {it \in ItemsOf(d) : Component(d, it.axis).kind \in {"positioner", "signal"}}

\* A target that is numeric, discrete or, on a nested locations signal, a
\* location name
TargetSupported(d, it) ==
    \/ Component(d, it.axis).kind = "locations"
    \/ it.target.t \in {"float", "int", "bool", "str"}

\* C15, as claimed: get() raises the error for an unsupported value type
\* exactly when a target of the table is none of numeric, discrete or
\* nested-location.
C15_ValueErrorIffTargetUnsupported ==
    \A d \in Devices : (revision = "common_ophyd" /\ lastget.dev = d) =>
        (lastget.err = "ValueError"
            <=> \E e \in Devices : \E it \in ItemsOf(e) : ~TargetSupported(e, it))

\* The test get() applies to an item, by the type of the value read
TestByValueType(d, it) ==
    LET v == CurrentValue(d, it.axis) IN
    IF v.t = "float" THEN Abs(v.n - it.target.n) < it.tol.n
    ELSE IF Component(d, it.axis).kind = "locations" THEN PyIn(it.target, v)
    ELSE v.t \in {"int", "bool", "str"} /\ PyEq(it.target, v)

\* C15, amended: the test is chosen by the type of the value read: the
\* interval test for a float, else membership for a nested locations
\* signal, else equality for an int or a str.  get() returns only when
\* every value read is of one of these types and every float was read
\* for a numeric (target, tol); it raises ValueError only when a value read
\* is of no supported type, and TypeError only when a float was read for a
\* spec that is not numeric.
C15_TestChosenByTypeOfValueRead ==
    \A d \in Devices : (revision = "common_ophyd" /\ lastget.dev = d) =>
        /\ lastget.err = "" =>
            /\ \A it \in LeafItemsOf(d) :
                    /\ Supported(CurrentValue(d, it.axis))
                    /\ CurrentValue(d, it.axis).t = "float" =>
                            IsNumber(it.target) /\ IsNumber(it.tol)
            /\ SatisfiedNames(value[d]) =
                  { table[d][i].name : i \in { j \in 1..Len(table[d]) :
                        \A k \in 1..Len(table[d][j].items) :
                            TestByValueType(d, table[d][j].items[k]) } }
        /\ lastget.err = "ValueError" =>
                \E e \in Devices : \E it \in LeafItemsOf(e) :
                    ~Supported(CurrentValue(e, it.axis))
        /\ lastget.err = "TypeError" =>
                \E e \in Devices : \E it \in LeafItemsOf(e) :
                    /\ CurrentValue(e, it.axis).t = "float"
                    /\ ~(IsNumber(it.target) /\ IsNumber(it.tol))

\* C15 witness: the location `one`, whose target is the number 1, was
\* tested by equality, without a tolerance, because the signal read the
\* int 1.
C15_Witness ==
    /\ revision = "common_ophyd"
    /\ Evaluated("m1")
    /\ axisval["ccg"] = PyInt(1)
    /\ "one" \in SatisfiedNames(value["m1"])

---------------------------------------------------------------------------
(* Properties of available() (SpecAvail) *)

\* C16: available() returns the location names of the table, each once,
\* and nothing else; the call changes neither the cached values nor an
\* axis, and creates no status and no command.
C16_AvailableIsTheKeysAndPure ==
    /\ [](lastavailable.dev # "" =>
            LET names == lastavailable.names IN
            /\ {names[i] : i \in 1..Len(names)} = KeySet(table[lastavailable.dev])
            /\ Len(names) = Cardinality(KeySet(table[lastavailable.dev])))
    /\ [][lastavailable' # lastavailable =>
            UNCHANGED <<value, axisval, status, calls, busy, table, lastget>>]_vars

\* C16 witness: available() returned the two names of diag's table after
\* a get() had published a value, which is still the cached value.
C16_Witness ==
    /\ lastavailable = [dev |-> "diag", names |-> << "Out", "YaG" >>]
    /\ Evaluated("diag")
    /\ SatisfiedNames(value["diag"]) = {"Out", "YaG"}

---------------------------------------------------------------------------
(* Properties of the scenarios (SpecScenario, SpecEval) *)

\* What get() reports with the motor x at position p (in ticks of 0.01)
ScenarioResult(p, names) ==
    (Evaluated("m1") /\ axisval["x"] = PyFloat(p)) => SatisfiedNames(value["m1"]) = names

\* C17: with the table {"in": {"x": (-12.7, 0.1)}, "out": {"x": (28, 0.1)}}
\* the device is constructed, get() returns, and it reports {"in"} with x
\* at -12.72, nothing with x at 0 and {"out"} with x at 28.05.
C17_InOutScenario ==
    /\ constructed["m1"] = ""
    /\ lastget.dev = "m1" => lastget.err = ""
    /\ ScenarioResult(-1272, {"in"})
    /\ ScenarioResult(0, {})
    /\ ScenarioResult(2805, {"out"})

\* The signal ccg reports a string
ReadsString == axisval["ccg"].t = "str"

\* Location `name` of m1 is in the table and was evaluated while the signal
\* reported a string
DiscreteCase(name) == Evaluated("m1") /\ name \in KeySet(table["m1"]) /\ ReadsString

\* C18, as claimed: with the spec {"state": "Open"}, whose data is the
\* string itself, the location is reported iff the signal reports "Open".
C18_BareStringSpecMatchesOpen ==
    DiscreteCase("bare") =>
        ("bare" \in SatisfiedNames(value["m1"]) <=> axisval["ccg"] = PyStr("Open"))

\* C18, amended: with the spec {"state": ("Open", None)} the location is
\* reported iff the signal reports "Open", whatever the second element;
\* with the bare string "Open" as data the target is its first character,
\* and the location is reported iff the signal reports "O".
C18_DiscreteSpecIsAPair ==
    /\ DiscreteCase("open") =>
        ("open" \in SatisfiedNames(value["m1"]) <=> axisval["ccg"] = PyStr("Open"))
    /\ DiscreteCase("bare") =>
        ("bare" \in SatisfiedNames(value["m1"]) <=> axisval["ccg"] = PyStr("O"))

\* C18 witness: with the signal at "Open", get() reported the location of
\* the pair ("Open", None) and not the one of the bare string.
C18_Witness ==
    /\ Evaluated("m1")
    /\ Keys(table["m1"]) = << "open", "bare" >>
    /\ axisval["ccg"] = PyStr("Open")
    /\ SatisfiedNames(value["m1"]) = {"open"}

---------------------------------------------------------------------------
(* Properties of the table (Spec) *)

\* C19: whatever get(), set() and set_location() calls were made, those that
\* raised included, the table of every device is the locations_data it was
\* constructed with, and so are the names available() returns.
C19_TableIsTheOneOfConstruction ==
    /\ table = locations_data(revision)
    /\ \A d \in Devices : available(d) = Keys(locations_data(revision)[d])

\* C19 witness: a move to a name that is no location has raised, and a
\* get() has returned.
C19_Witness ==
    /\ \E c \in CallIds : calls[c].err = "KeyError"
    /\ lastget.dev # "" /\ lastget.err = ""

---------------------------------------------------------------------------
(* Properties of get() between direct moves (SpecMove) *)

\* The locations of device d whose (axis, spec) pairs all pass with the
\* values the axes report now
PassingNow(d) ==
    { table[d][i].name : i \in { j \in 1..Len(table[d]) :
          \A k \in 1..Len(table[d][j].items) : Passes(d, table[d][j].items[k]) } }

\* The value of device d was published by a get() and no longer agrees
\* with the axes
Stale(d) == Published(value[d]) /\ SatisfiedNames(value[d]) # PassingNow(d)

\* C20: every get() that returns, whatever was published before and
\* wherever the axes were moved since, reports the locations that pass
\* with the values the axes report at that get(); between a direct move
\* and the next get() the published value may disagree with the axes.
C20_GetReadsTheAxesEveryTime ==
    [][axisval' = axisval =>
          \A d \in Devices : (lastget'.dev = d /\ lastget'.err = "") =>
              SatisfiedNames(value'[d]) = PassingNow(d)]_vars

\* C20 witness: after a get() of m1 its motor x was moved out of the
\* location the published value still reports.
C20_Witness ==
    /\ Evaluated("m1")
    /\ Stale("m1")
    /\ axisval["x"] # AtRest["x"]

---------------------------------------------------------------------------
(* Properties of get() while moves are in flight (Spec) *)

\* The moves requested and not done
InFlight == {s \in 1..Len(status) : status[s].kind = "move" /\ ~status[s].done}

\* C21: a get(), whatever moves are in flight, requests no move, creates
\* and finishes no status (it is one step that leaves every move as it
\* found it), changes no axis and no call, and when it returns it reports
\* the locations that pass with the values the axes report, not with the
\* targets they were sent to.
C21_GetIsAPureRead ==
    [][(lastget' # lastget \/ (value' # value /\ calls' = calls)) =>
          /\ UNCHANGED <<status, calls, axisval, busy, table>>
          /\ \A d \in Devices : (lastget'.dev = d /\ lastget'.err = "") =>
                SatisfiedNames(value'[d]) = PassingNow(d)]_vars

\* C21 witness: diag's blade is on its way to a target it has not reached,
\* and a get() of diag made since the move was requested has returned.
C21_Witness ==
    /\ \E s \in InFlight : /\ status[s].axis = "blade"
                           /\ PyFloat(status[s].target.n) # axisval["blade"]
    /\ Evaluated("diag")
    /\ Published(value["diag"])

---------------------------------------------------------------------------
(* Properties of trigger() (SpecTrigger) *)

\* The constituents each trigger() names, the parent's trigger included
Constituents(dev) ==
    CASE dev = "diag" -> {"camera", "currents", "super"}
      [] dev = "slits" -> {"currents", "super"}
      [] OTHER -> {"slits", "diag", "super"}

\* C22, as claimed: the status trigger() returned is never done while the
\* trigger status of a constituent is not done.
C22_DoneOnlyWhenEveryTriggerIsDone ==
    \A c \in CallIds : Done(calls[c].ret) => \A h \in Handles(c) : Done(h)

\* C22, amended: every trigger() has triggered each constituent it names
\* and the parent; the status it returned is done with success only when
\* the trigger status of each of them is, it is not successful once one of
\* them has failed (and done without success once the callbacks have run),
\* and it is done without success only when one of them has failed.
C22_TriggerCombinesEveryConstituent ==
    \A c \in CallIds :
        /\ {calls[c].cmds[i].axis : i \in 1..Len(calls[c].cmds)} = Constituents(calls[c].dev)
        /\ Cardinality(Handles(c)) = Cardinality(Constituents(calls[c].dev))
        /\ Succeeded(calls[c].ret) => \A h \in Handles(c) : Succeeded(h)
        /\ Failed(calls[c].ret) => \E h \in Handles(c) : Failed(h)
        /\ (\E h \in Handles(c) : Failed(h)) =>
                /\ ~Succeeded(calls[c].ret)
                /\ Quiet => Failed(calls[c].ret)

\* C22 witness: a trigger() of m1 whose status is done with success, and
\* with it those of slits and diag it called.
C22_Witness ==
    \E c \in CallIds : /\ calls[c].dev = "m1"
                       /\ Succeeded(calls[c].ret)
                       /\ \A n \in CallIds : calls[n].parent = c => Succeeded(calls[n].ret)

---------------------------------------------------------------------------
(* A move followed by a get() (Spec) *)

\* Every axis a move to location `name` of device d commands reports the
\* target it was sent to, those of the nested devices included.
RECURSIVE Settled(_, _)
Settled(d, name) ==
    \A k \in 1..Len(Lookup(table[d], name)) :
        LET it == Lookup(table[d], name)[k]
            signal == Component(d, it.axis)
        IN  CASE signal.kind = "positioner" -> axisval[signal.of] = PyFloat(it.target.n)
              [] signal.kind = "locations" -> Settled(signal.of, NameOf(it.target))
              [] OTHER -> FALSE

\* The moves of outside callers that have completed with success: the
\* status set() returned is done with success, or set_location() returned
Completed ==
    {c \in CallIds : /\ calls[c].parent = 0
                     /\ calls[c].pc = "returned"
                     /\ revision = "common_ophyd" => Succeeded(calls[c].ret)}

\* C23: once a move to a location has completed with success, no move is
\* in flight and the axes are where the move sent them, a get() reports
\* the location as satisfied.
C23_MoveThenGetReportsTheLocation ==
    \A c \in Completed :
        (InFlight = {} /\ Settled(calls[c].dev, calls[c].location)) =>
            /\ GetNow(calls[c].dev).err = ""
            /\ calls[c].location \in SatisfiedNames(GetNow(calls[c].dev).vals[calls[c].dev])

---------------------------------------------------------------------------
(* Properties of a get() that raises (SpecMove) *)

\* C24: a get() that raises leaves the value its signal published before
\* as it was: nothing computed before the error is put.
C24_RaisingGetPublishesNothing ==
    [][lastget'.err # "" => value'[lastget'.dev] = value[lastget'.dev]]_vars

\* C24 witness: a get() of m1 has raised on a reading of no supported
\* type, after an earlier get() had published a value, which is still
\* there.
C24_Witness ==
    /\ lastget.dev = "m1"
    /\ lastget.err = "ValueError"
    /\ Published(value["m1"])

---------------------------------------------------------------------------
(* A move that raises while it issues its commands (Spec) *)

\* What the resolution of an axis or its set() raises
IssuingErrors == {"AttributeError", "ReadOnlyError", "LimitError"}

\* C25: a move that has raised while issuing its commands has commanded
\* no axis.
C25_RaisedWhileIssuingCommandsNothing ==
    \A c \in CallIds : calls[c].err \in IssuingErrors =>
        /\ calls[c].cmds = << >>
        /\ MovesOf(c) = {}

---------------------------------------------------------------------------
(* The two revisions of get() on the same table (SpecEval) *)

\* The specs of device d are all numeric (target, tolerance) pairs on
\* motors
NumericTable(d) ==
    \A it \in ItemsOf(d) : /\ Component(d, it.axis).kind = "positioner"
                           /\ it.target.t \in {"int", "float"}
                           /\ it.tol.t \in {"int", "float"}

\* The names of table t flagged true in the record v, in the table's order
RECURSIVE FlaggedIn(_, _)
FlaggedIn(t, v) ==
    IF t = << >> THEN << >>
    ELSE (IF Head(t).name \in SatisfiedNames(v) THEN << Head(t).name >> ELSE << >>)
            \o FlaggedIn(Tail(t), v)

\* The names in the list published by get() of ophyd_devices.py
Listed(v) == [i \in 1..Len(v.e) |-> v.e[i].name]

\* C26: on a table of numeric specs on motors, whatever the positions,
\* neither get() raises, the list get() of ophyd_devices.py publishes is
\* the names flagged true in the record get() of common_ophyd.py
\* publishes, and the value the device has published is that one.
C26_RevisionsAgreeOnNumericTables ==
    \A d \in Devices : NumericTable(d) =>
        LET old == get_ophyd_devices(d, value)
            new == get(d, value)
        IN  /\ old.err = "" /\ new.err = ""
            /\ Listed(old.vals[d]) = FlaggedIn(table[d], new.vals[d])
            /\ {old.vals[d].e[i].name : i \in 1..Len(old.vals[d].e)}
                    = SatisfiedNames(new.vals[d])
            /\ Evaluated(d) =>
                    value[d] = IF revision = "common_ophyd" THEN new.vals[d] ELSE old.vals[d]

\* C26 witness: a get() of diag on a numeric table of two locations has
\* reported one of them and not the other, the blade being on the boundary
\* of the other's interval.
C26_Witness ==
    /\ NumericTable("diag")
    /\ Evaluated("diag")
    /\ axisval["blade"] = PyFloat(1) /\ axisval["filter"] = PyFloat(0)
    /\ {"Out", "YaG"} \subseteq KeySet(table["diag"])
    /\ SatisfiedNames(value["diag"]) \cap {"Out", "YaG"} = {"Out"}

---------------------------------------------------------------------------
(* Properties of the base status (SpecThread) *)

\* The calls of set() for a location of the table that has no axis
ToEmptyLocation == {c \in Located : Lookup(table[calls[c].dev], calls[c].location) = << >>}

\* C27: a set() for a location without axes commands nothing and has
\* returned a status that was done, with success, when it returned.
C27_EmptyLocationReturnsADoneStatus ==
    \A c \in ToEmptyLocation :
        /\ calls[c].cmds = << >> /\ MovesOf(c) = {} /\ NestedOf(c) = {}
        /\ calls[c].pc = "returned"
        /\ calls[c].retdone
        /\ Succeeded(calls[c].ret)

\* C28: the AndStatus objects of a set() do not fail unless a move has
\* failed: the base status of the signal never fails them.
C28_BaseStatusNeverFailsTheComposite ==
    (\E s \in 1..Len(status) : status[s].kind = "and" /\ Failed(s))
        => \E m \in 1..Len(status) : status[m].kind = "move" /\ Failed(m)

---------------------------------------------------------------------------
(* Properties of a second move (SpecConcurrent) *)

\* C29: a set() made while axes commanded by an earlier set() of the same
\* signal are moving is never refused: no call raises the RuntimeError of
\* Signal.set ("another set() call is still in progress").
C29_SecondMoveIsNeverRefused ==
    \A c \in CallIds : calls[c].err # "RuntimeError"

---------------------------------------------------------------------------
(* Properties of nested moves (Spec) *)

\* The moves the nested set() calls of call c requested of the motors
NestedMoves(c) == UNION {MovesOf(n) : n \in NestedOf(c)}

\* C30, as claimed: the status set() returned is never done while a move
\* requested by a nested set() it made is not done.
C30_OuterNotDoneWhileNestedLeafPending ==
    \A c \in Returned : Done(calls[c].ret) => \A s \in NestedMoves(c) : Done(s)

\* C30, amended: for each item of a location that names the locations
\* signal of a nested device with target T, set() has called the nested
\* set(T), which has commanded every axis of T and whose status is the
\* item's handle; the status the outer set() returned is done with success
\* only when every move of the nested set() is, it is not successful once
\* one of them has failed, and it is done without success once the
\* callbacks have run.
C30_NestedMovesCascade ==
    \A c \in Returned :
        LET items == Lookup(table[calls[c].dev], calls[c].location) IN
        /\ \A k \in 1..Len(items) :
              LET signal == Component(calls[c].dev, items[k].axis) IN
              signal.kind = "locations" =>
                  \E n \in NestedOf(c) :
                      /\ calls[n].dev = signal.of
                      /\ calls[n].location = NameOf(items[k].target)
                      /\ calls[n].pc = "returned"
                      /\ calls[n].ret = calls[c].cmds[k].st
                      /\ Cardinality(MovesOf(n))
                            = Len(Lookup(table[calls[n].dev], calls[n].location))
        /\ Succeeded(calls[c].ret) => \A s \in NestedMoves(c) : Succeeded(s)
        /\ (\E s \in NestedMoves(c) : Failed(s)) =>
                /\ ~Succeeded(calls[c].ret)
                /\ Quiet => Failed(calls[c].ret)

\* C30 witness: the move of m1 to Yag has moved diag to YaG, blade and
\* filter, and its status is done with success.
C30_Witness ==
    \E c \in Returned :
        /\ calls[c].dev = "m1" /\ calls[c].location = "Yag"
        /\ Cardinality(NestedMoves(c)) = 2
        /\ Succeeded(calls[c].ret)

===========================================================================
